---- MODULE Spec2Model ----
(***************************************************************************)
(* A model of iotexec (src/src/iotexec.c): the service that receives       *)
(* cloud-to-device commands through the iotclient library, runs each one   *)
(* with popen and streams its output back with IOTCLIENT_Stream.           *)
(*                                                                         *)
(* The main thread is modelled statement by statement (pc names the next   *)
(* call it makes); the iotclient library and the C library are the         *)
(* environment, whose results are chosen nondeterministically.  C strings  *)
(* are TLA+ strings, so composing and parsing headers is real string work. *)
(* Error codes are kept by name (EOK, EINVAL, ...).                        *)
(***************************************************************************)
EXTENDS Integers, Sequences, FiniteSets, TLC

VARIABLES
    pc,               \* the call the main thread makes next
    proc,             \* "running", "returned" (main returned) or "exited" (exit())
    exitStatus,       \* main's result, which it returns; or exit()'s argument
    verbose,          \* state.verbose
    handlerInstalled, \* sigaction() has registered TerminationHandler
    hIoTClient,       \* state.hIoTClient: NULL or the handle
    conn,             \* the transport connection: "none", "open", "closed"
    closeCalls,       \* the IOTCLIENT_Close calls made: who called, on what
    msg,              \* what IOTCLIENT_Receive delivered in this cycle
    result,           \* ProcessMessage's local result
    rc,               \* ProcessMessage's local rc
    rxMsgId,          \* ProcessMessage's buffer rxMsgId[64] (stack memory)
    msgId,            \* ProcessMessage's pointer msgId: NULL or "rxMsgId"
    headers,          \* ProcessCommand's headers string
    fp,               \* ProcessCommand's fp: NULL or "FILE"
    fd,               \* ProcessCommand's fd
    cmdResult,        \* ProcessCommand's local result
    openProcs,        \* subprocess streams popen'ed and not yet pclose'd
    cyc,              \* what this dispatch cycle has done so far
    logged            \* what this cycle wrote to stderr, or "none"

vars == <<pc, proc, exitStatus, verbose, handlerInstalled, hIoTClient, conn,
          closeCalls, msg, result, rc, rxMsgId, msgId, headers, fp, fd,
          cmdResult, openProcs, cyc, logged>>

(***************************************************************************)
(* Program constants                                                       *)
(***************************************************************************)
MAX_MESSAGE_LENGTH == 4096

\* sizeof( rxMsgId )
MSGID_SIZE == 64

\* <stdio.h> of glibc; the size of ProcessCommand's buf
BUFSIZ == 8192

NULL == "NULL"

EOK == "EOK"

HEADERS == "source:exec\nmessagetype:cmdresp"

(***************************************************************************)
(* Bounds of the model                                                     *)
(***************************************************************************)
\* message ids of length 1..MaxShortIdLen
MaxShortIdLen == 1

\* message ids of the lengths within IdLenSlack of the buffer's capacity
IdLenSlack == 1

\* bodies of length 0..MaxSmallBody
MaxSmallBody == 1

\* bodies that bring headerLength + bodyLength within BodySlack of the limit
BodySlack == 1

\* correlation ids that bring the composed headers within BuilderSlack of
\* the size of ProcessCommand's buf
BuilderSlack == 1

\* the error codes a library call may report
Errors == {"EINVAL", "EBADF", "EMSGSIZE", "ENOTSUP", "EIO"}

(***************************************************************************)
(* Strings                                                                 *)
(***************************************************************************)
\* the string of n characters c, built by doubling
RECURSIVE Rep(_, _)
Rep(c, n) ==
    IF n = 0 THEN ""
    ELSE LET half == Rep(c, n \div 2)
         IN  half \o half \o (IF n % 2 = 1 THEN c ELSE "")

\* the positions of character c in s
Positions(s, c) == {i \in 1..Len(s) : SubSeq(s, i, i) = c}

\* s split at its newlines: line j runs from after the (j-1)th newline to
\* before the jth (the start and the end of s standing for the outer ones)
Lines(s) ==
    LET nl == Positions(s, "\n")
        cut(j) == IF j = 0 THEN 0
                  ELSE IF j > Cardinality(nl) THEN Len(s) + 1
                  ELSE CHOOSE p \in nl :
                           Cardinality({q \in nl : q <= p}) = j
    IN  [j \in 1..(Cardinality(nl) + 1) |->
            SubSeq(s, cut(j - 1) + 1, cut(j) - 1)]

StartsWith(s, p) == Len(s) >= Len(p) /\ SubSeq(s, 1, Len(p)) = p

RangeOf(q) == {q[i] : i \in 1..Len(q)}

(***************************************************************************)
(* Inbound messages: what IOTCLIENT_Receive can deliver                    *)
(***************************************************************************)
IdChars == {"a", "b"}

IdLens == (1..MaxShortIdLen) \cup
          ((MSGID_SIZE - IdLenSlack)..(MSGID_SIZE + IdLenSlack - 1))

\* the values X of a messageId:X header line
Ids == {Rep(c, n) : c \in IdChars, n \in IdLens}

\* Header blobs, newline-separated key:value lines.  kind and id record how
\* the blob was made: "absent" (no header), "noId" (no messageId line),
\* "malformed" (messageId without its colon and value), "id" (messageId:id,
\* alone, after another line, or before another line).
HeaderBlobs ==
    {[pHeader |-> NULL, kind |-> "absent", id |-> NULL],
     [pHeader |-> "foo:bar", kind |-> "noId", id |-> NULL],
     [pHeader |-> "messageId", kind |-> "malformed", id |-> NULL]}
    \cup
    {[pHeader |-> wrap[1] \o "messageId:" \o x \o wrap[2],
      kind |-> "id", id |-> x] :
        x \in Ids,
        wrap \in {<<"", "">>, <<"foo:bar\n", "">>, <<"", "\nfoo:bar">>}}

HeaderLengthOf(h) == IF h.pHeader = NULL THEN 0 ELSE Len(h.pHeader)

\* body lengths: short ones, the ones around the size limit, and the largest
\* message the receiver was created for
BodyLengths(headerLength) ==
    (0..MaxSmallBody) \cup
    ((MAX_MESSAGE_LENGTH - headerLength - BodySlack)..
     (MAX_MESSAGE_LENGTH - headerLength + BodySlack - 1)) \cup
    {MAX_MESSAGE_LENGTH}

\* pBody is NULL (FALSE) or points at bodyLength bytes (TRUE)
Messages ==
    UNION {{[pHeader |-> h.pHeader, kind |-> h.kind, id |-> h.id,
             headerLength |-> HeaderLengthOf(h),
             pBody |-> b, bodyLength |-> n] :
                b \in BOOLEAN, n \in BodyLengths(HeaderLengthOf(h))} :
           h \in HeaderBlobs}

NoMessage == [pHeader |-> NULL, kind |-> "none", id |-> NULL,
              headerLength |-> 0, pBody |-> FALSE, bodyLength |-> 0]

(***************************************************************************)
(* IOTCLIENT_GetProperty( header, name, buf, len ): the library's          *)
(* extractor.  It finds the first line name:value; the value must fit the  *)
(* destination with its terminating NUL.  It returns the set of possible   *)
(* outcomes [rc, buf]: what a failed call leaves in buf is not specified,  *)
(* so it is the old content or the truncated value.                        *)
(***************************************************************************)
\* the value that starts at position from of the blob: it runs to the next
\* newline or to the end of the blob
ValueAt(header, from) ==
    LET ends == {e \in from..(Len(header) + 1) :
                    \/ e = Len(header) + 1
                    \/ SubSeq(header, e, e) = "\n"}
    IN  SubSeq(header, from,
               (CHOOSE e \in ends : \A f \in ends : e <= f) - 1)

\* <<value>> of the first line name:value of the blob, <<>> when there is
\* none; a line starts at the start of the blob or after a newline
PropertyValue(header, name) ==
    LET key == name \o ":"
        lineStarts == {p \in 1..(Len(header) - Len(name)) :
                          p = 1 \/ SubSeq(header, p - 1, p - 1) = "\n"}
        starts == {p \in lineStarts :
                      SubSeq(header, p, p + Len(name)) = key}
        first == {p \in starts : \A q \in starts : p <= q}
    IN  IF starts = {} THEN <<>>
        ELSE CHOOSE v \in {<<ValueAt(header, p + Len(key))>> : p \in first} :
                 TRUE

\* what the call leaves in rc and buf when the blob holds the values v
\* (<<>> or <<value>>) for the name
GetPropertyOutcomes(v, buf, len) ==
    IF v = <<>> THEN {[rc |-> "ENOENT", buf |-> buf]}
    ELSE IF Len(v[1]) >= len
         THEN {[rc |-> "E2BIG", buf |-> buf],
               [rc |-> "E2BIG", buf |-> SubSeq(v[1], 1, len - 1)]}
         ELSE {[rc |-> EOK, buf |-> v[1]]}

IOTCLIENT_GetProperty(header, name, buf, len) ==
    UNION {GetPropertyOutcomes(v, buf, len) :
              v \in {PropertyValue(header, name)}}

(***************************************************************************)
(* The dispatch cycle's record of what it has done (history, not program   *)
(* state): rx is what IOTCLIENT_Receive returned, the counters count the   *)
(* calls made, streamed lists the headers handed to IOTCLIENT_Stream and   *)
(* streamRet is what IOTCLIENT_Stream returned.                            *)
(***************************************************************************)
NewCycle(rx) ==
    [rx |-> rx, extracts |-> 0, execs |-> 0, popens |-> 0, spawns |-> 0,
     streamed |-> <<>>, streamRet |-> "none"]

Running == proc = "running"

(***************************************************************************)
(* main                                                                    *)
(***************************************************************************)
Init ==
    /\ pc = "ProcessOptions"
    /\ proc = "running"
    /\ exitStatus = "none"
    /\ verbose = FALSE
    /\ handlerInstalled = FALSE
    /\ hIoTClient = NULL
    /\ conn = "none"
    /\ closeCalls = <<>>
    /\ msg = NoMessage
    /\ result = "EINVAL"
    /\ rc = "none"
    /\ rxMsgId = "?"
    /\ msgId = NULL
    /\ headers = HEADERS
    /\ fp = NULL
    /\ fd = -1
    /\ cmdResult = "EINVAL"
    /\ openProcs = 0
    /\ cyc = NewCycle("none")
    /\ logged = "none"

\* ProcessOptions: -v sets the verbose flag
ProcessOptions ==
    /\ Running /\ pc = "ProcessOptions"
    /\ \E v \in BOOLEAN : verbose' = v
    /\ pc' = "SetupTerminationHandler"
    /\ UNCHANGED <<proc, exitStatus, handlerInstalled, hIoTClient, conn,
                   closeCalls, msg, result, rc, rxMsgId, msgId, headers, fp,
                   fd, cmdResult, openProcs, cyc, logged>>

SetupTerminationHandler ==
    /\ Running /\ pc = "SetupTerminationHandler"
    /\ handlerInstalled' = TRUE
    /\ pc' = "Create"
    /\ UNCHANGED <<proc, exitStatus, verbose, hIoTClient, conn, closeCalls,
                   msg, result, rc, rxMsgId, msgId, headers, fp, fd,
                   cmdResult, openProcs, cyc, logged>>

\* (variant) main goes on with a NULL handle
AfterCreate_NoNullCheck(h) == "CreateReceiver"

\* if ( state.hIoTClient != NULL ) { ... } return result;
AfterCreate(h) == IF h # NULL THEN "CreateReceiver" ELSE "Return"

\* state.hIoTClient = IOTCLIENT_Create(); with a NULL handle main goes to
\* return its initial result, EINVAL
CreateClient ==
    /\ Running /\ pc = "Create"
    /\ \E h \in {NULL, "hIoTClient"} :
        /\ hIoTClient' = h
        /\ conn' = IF h # NULL THEN "open" ELSE conn
        /\ exitStatus' = "EINVAL"
        /\ pc' = AfterCreate(h)
    /\ UNCHANGED <<proc, verbose, handlerInstalled, closeCalls, msg, result,
                   rc, rxMsgId, msgId, headers, fp, fd, cmdResult, openProcs,
                   cyc, logged>>

\* result = IOTCLIENT_CreateReceiver( ... ); EOK enters ProcessMessages
CreateReceiver ==
    /\ Running /\ pc = "CreateReceiver"
    /\ \E r \in {EOK} \cup Errors :
        /\ exitStatus' = r
        /\ pc' = IF r = EOK THEN "Receive" ELSE "Close"
    /\ UNCHANGED <<proc, verbose, handlerInstalled, hIoTClient, conn,
                   closeCalls, msg, result, rc, rxMsgId, msgId, headers, fp,
                   fd, cmdResult, openProcs, cyc, logged>>

\* IOTCLIENT_Close( state.hIoTClient ); state.hIoTClient keeps the handle
CloseClient ==
    /\ Running /\ pc = "Close"
    /\ closeCalls' = Append(closeCalls, [by |-> "main", handle |-> hIoTClient,
                                         conn |-> conn])
    /\ conn' = "closed"
    /\ pc' = "Return"
    /\ UNCHANGED <<proc, exitStatus, verbose, handlerInstalled, hIoTClient,
                   msg, result, rc, rxMsgId, msgId, headers, fp, fd,
                   cmdResult, openProcs, cyc, logged>>

\* return result; the process ends with main's result as its status
MainReturn ==
    /\ Running /\ pc = "Return"
    /\ proc' = "returned"
    /\ UNCHANGED <<pc, exitStatus, verbose, handlerInstalled, hIoTClient,
                   conn, closeCalls, msg, result, rc, rxMsgId, msgId, headers,
                   fp, fd, cmdResult, openProcs, cyc, logged>>

\* (variant) exit( 0 )
HandlerExitStatus_Zero == "0"

\* exit( 1 ) in TerminationHandler
HandlerExitStatus == "1"

\* A SIGTERM or SIGINT is delivered while the process runs, wherever the
\* main thread is, once the handler is registered:
\* IOTCLIENT_Close( state.hIoTClient ); exit( 1 );
TerminationHandler ==
    /\ Running /\ handlerInstalled
    /\ closeCalls' = Append(closeCalls, [by |-> "handler",
                                         handle |-> hIoTClient, conn |-> conn])
    /\ conn' = IF hIoTClient = NULL THEN conn ELSE "closed"
    /\ proc' = "exited"
    /\ exitStatus' = HandlerExitStatus
    /\ UNCHANGED <<pc, verbose, handlerInstalled, hIoTClient, msg, result, rc,
                   rxMsgId, msgId, headers, fp, fd, cmdResult, openProcs, cyc,
                   logged>>

(***************************************************************************)
(* ProcessMessages / ProcessMessage                                        *)
(***************************************************************************)
\* (variant) while( result == EOK ): the loop ends at the first failed cycle
LoopTarget_UntilError(r) == IF r = EOK THEN "Receive" ELSE "Close"

\* while( true ) { result = ProcessMessage(pState); }: where the loop goes
\* after a cycle that ended with result r
LoopTarget(r) == "Receive"

\* (variant) msgId declared without its initialiser
MsgIdAtEntry_Uninitialised(old) == old

\* const char *msgId = NULL; the pointer at the entry of ProcessMessage,
\* whatever the previous call left in its place
MsgIdAtEntry(old) == NULL

\* (variant) msgId = rxMsgId outside the test of rc
MsgIdAfterGetProperty_Unchecked(rcv, old) == "rxMsgId"

\* (variant) a value that did not fit is taken as extracted
MsgIdAfterGetProperty_TooLongOk(rcv, old) ==
    IF rcv \in {EOK, "E2BIG"} THEN "rxMsgId" ELSE old

\* if( rc == EOK ) { msgId = rxMsgId; }
MsgIdAfterGetProperty(rcv, old) == IF rcv = EOK THEN "rxMsgId" ELSE old

\* (variant) <= in place of <
BodyAcceptable_Le(m) ==
    m.pBody /\ m.headerLength + m.bodyLength <= MAX_MESSAGE_LENGTH

\* (variant) an empty body is rejected too
BodyAcceptable_NonEmpty(m) ==
    /\ m.pBody /\ m.bodyLength > 0
    /\ m.headerLength + m.bodyLength < MAX_MESSAGE_LENGTH

\* (variant) pBody is not tested
BodyAcceptable_NoNullCheck(m) ==
    m.headerLength + m.bodyLength < MAX_MESSAGE_LENGTH

\* ( pBody != NULL ) && ( headerLength + bodyLength < MAX_MESSAGE_LENGTH )
BodyAcceptable(m) ==
    m.pBody /\ m.headerLength + m.bodyLength < MAX_MESSAGE_LENGTH

\* (variant) the extraction moved inside the size and body check
ExtractorCalled_OnlyIfAcceptable(m) == m.pHeader # NULL /\ BodyAcceptable(m)

\* if ( pHeader != NULL ), which comes before the size and body check
ExtractorCalled(m) == m.pHeader # NULL

\* ProcessMessage is entered (result = EINVAL, msgId = NULL; rxMsgId is
\* not initialised and holds what the previous call left on the stack) and
\* IOTCLIENT_Receive returns.  The locals of the calls that have returned
\* are dead and are reset here.
Receive ==
    /\ Running /\ pc = "Receive"
    /\ \E r \in {EOK} \cup Errors :
        /\ result' = r
        /\ cyc' = NewCycle(r)
        /\ IF r = EOK
           THEN /\ \E m \in Messages : msg' = m
                /\ pc' = "GetProperty"
           ELSE /\ msg' = NoMessage
                /\ pc' = "LogResult"
    /\ msgId' = MsgIdAtEntry(msgId)
    /\ rc' = "none"
    /\ headers' = HEADERS
    /\ fp' = NULL
    /\ fd' = -1
    /\ cmdResult' = "EINVAL"
    /\ logged' = "none"
    /\ UNCHANGED <<proc, exitStatus, verbose, handlerInstalled, hIoTClient,
                   conn, closeCalls, rxMsgId, openProcs>>

\* if ( pHeader != NULL ) { rc = IOTCLIENT_GetProperty( pHeader, "messageId",
\* rxMsgId, sizeof( rxMsgId ) ); if( rc == EOK ) { msgId = rxMsgId; } }
GetProperty ==
    /\ Running /\ pc = "GetProperty"
    /\ IF ExtractorCalled(msg)
       THEN /\ \E o \in IOTCLIENT_GetProperty(msg.pHeader, "messageId",
                                              rxMsgId, MSGID_SIZE) :
                /\ rc' = o.rc
                /\ rxMsgId' = o.buf
                /\ msgId' = MsgIdAfterGetProperty(o.rc, msgId)
            /\ cyc' = [cyc EXCEPT !.extracts = @ + 1]
       ELSE UNCHANGED <<rc, rxMsgId, msgId, cyc>>
    /\ pc' = "CheckSize"
    /\ UNCHANGED <<proc, exitStatus, verbose, handlerInstalled, hIoTClient,
                   conn, closeCalls, msg, result, headers, fp, fd, cmdResult,
                   openProcs, logged>>

\* the size and body check: ProcessCommand is called, or result = EMSGSIZE
CheckSize ==
    /\ Running /\ pc = "CheckSize"
    /\ IF BodyAcceptable(msg)
       THEN /\ pc' = "ProcessCommand"
            /\ UNCHANGED result
       ELSE /\ pc' = "LogResult"
            /\ result' = "EMSGSIZE"
    /\ UNCHANGED <<proc, exitStatus, verbose, handlerInstalled, hIoTClient,
                   conn, closeCalls, msg, rc, rxMsgId, msgId, headers, fp, fd,
                   cmdResult, openProcs, cyc, logged>>

\* if( pState->verbose && ( result != EOK ) ) fprintf( stderr, ... );
\* return result; and ProcessMessages loops.  The cycle is over: its
\* message and its record are dropped.
LogResult ==
    /\ Running /\ pc = "LogResult"
    /\ logged' = IF verbose /\ result # EOK THEN result ELSE "none"
    /\ pc' = LoopTarget(result)
    /\ msg' = NoMessage
    /\ cyc' = NewCycle("none")
    /\ UNCHANGED <<proc, exitStatus, verbose, handlerInstalled, hIoTClient,
                   conn, closeCalls, result, rc, rxMsgId, msgId, headers,
                   fp, fd, cmdResult, openProcs>>

(***************************************************************************)
(* ProcessCommand                                                          *)
(***************************************************************************)
\* (variant) the else branch is missing: result keeps its initial EINVAL
PopenFailureResult_Missing == "EINVAL"

\* else { result = ENOTSUP; } after a popen that returned NULL
PopenFailureResult == "ENOTSUP"

\* (variant) pclose only inside the fd != -1 branch
FilenoFailureTarget_NoClose == "ProcessCommandReturn"

\* after a fileno that returned -1 the stream is still closed
FilenoFailureTarget == "pclose"

\* (variant) an early return when IOTCLIENT_Stream fails
AfterStream_ReturnOnError(r) ==
    IF r = EOK THEN "pclose" ELSE "ProcessCommandReturn"

\* (variant) a failed IOTCLIENT_Stream is tried again
AfterStream_Retry(r) == IF r = EOK THEN "pclose" ELSE "Stream"

\* after IOTCLIENT_Stream returned r the stream is closed
AfterStream(r) == "pclose"

\* (variant) the else branch is missing: result keeps its initial EINVAL
FilenoFailureResult_Missing == "EINVAL"

\* else { result = EBADF; } after a fileno that returned -1
FilenoFailureResult == "EBADF"

\* (variant) ProcessCommand's value is dropped
ResultAfterCommand_Dropped(old, returned) == old

\* result = ProcessCommand( pState, pBody, msgId ) in ProcessMessage
ResultAfterCommand(old, returned) == returned

\* snprintf( buf, BUFSIZ, "%s\ncorrelationId:%s\n", headers, msgId ): the
\* length it returns and what it leaves in buf
SnprintfHeaders(id) ==
    LET full == HEADERS \o "\ncorrelationId:" \o id \o "\n"
    IN  [n |-> Len(full),
         buf |-> IF Len(full) < BUFSIZ THEN full
                 ELSE SubSeq(full, 1, BUFSIZ - 1)]

\* (variant) the correlation key is misspelt
ComposeHeaders_WrongKey(id) ==
    IF id = NULL THEN HEADERS
    ELSE HEADERS \o "\ncorrelationid:" \o id \o "\n"

\* (variant) buf is used whatever snprintf returned
ComposeHeaders_NoLengthCheck(id) ==
    IF id = NULL THEN HEADERS ELSE SnprintfHeaders(id).buf

\* (variant) the newline between messagetype and correlationId is missing
ComposeHeaders_NoSeparator(id) ==
    IF id = NULL THEN HEADERS
    ELSE HEADERS \o "correlationId:" \o id \o "\n"

\* the headers ProcessCommand streams with, for msgId NULL or the string id
ComposeHeaders(id) ==
    IF id = NULL THEN HEADERS
    ELSE LET r == SnprintfHeaders(id)
         IN  IF r.n > 0 /\ r.n < BUFSIZ THEN r.buf ELSE HEADERS

\* ProcessCommand's parameter msgId: NULL or the string it points at
MsgIdString == IF msgId = NULL THEN NULL ELSE rxMsgId

\* ProcessCommand is entered (result = EINVAL) and builds the headers
ProcessCommand ==
    /\ Running /\ pc = "ProcessCommand"
    /\ cmdResult' = "EINVAL"
    /\ headers' = ComposeHeaders(MsgIdString)
    /\ cyc' = [cyc EXCEPT !.execs = @ + 1]
    /\ pc' = "popen"
    /\ UNCHANGED <<proc, exitStatus, verbose, handlerInstalled, hIoTClient,
                   conn, closeCalls, msg, result, rc, rxMsgId, msgId, fp, fd,
                   openProcs, logged>>

\* fp = popen( cmd, "r" ); NULL gives result = ENOTSUP
Popen ==
    /\ Running /\ pc = "popen"
    /\ \E launched \in BOOLEAN :
        IF launched
        THEN /\ fp' = "FILE"
             /\ openProcs' = openProcs + 1
             /\ cyc' = [cyc EXCEPT !.popens = @ + 1, !.spawns = @ + 1]
             /\ pc' = "fileno"
             /\ UNCHANGED cmdResult
        ELSE /\ fp' = NULL
             /\ cyc' = [cyc EXCEPT !.popens = @ + 1]
             /\ cmdResult' = PopenFailureResult
             /\ pc' = "ProcessCommandReturn"
             /\ UNCHANGED openProcs
    /\ UNCHANGED <<proc, exitStatus, verbose, handlerInstalled, hIoTClient,
                   conn, closeCalls, msg, result, rc, rxMsgId, msgId, headers,
                   fd, logged>>

\* fd = fileno( fp ); -1 gives result = EBADF
Fileno ==
    /\ Running /\ pc = "fileno"
    /\ \E f \in {-1, 3} :
        /\ fd' = f
        /\ IF f # -1
           THEN /\ pc' = "Stream"
                /\ UNCHANGED cmdResult
           ELSE /\ pc' = FilenoFailureTarget
                /\ cmdResult' = FilenoFailureResult
    /\ UNCHANGED <<proc, exitStatus, verbose, handlerInstalled, hIoTClient,
                   conn, closeCalls, msg, result, rc, rxMsgId, msgId, headers,
                   fp, openProcs, cyc, logged>>

\* IOTCLIENT_Stream( pState->hIoTClient, headers, fd ) is called
StreamCall ==
    /\ Running /\ pc = "Stream"
    /\ cyc' = [cyc EXCEPT !.streamed = Append(@, headers)]
    /\ pc' = "InStream"
    /\ UNCHANGED <<proc, exitStatus, verbose, handlerInstalled, hIoTClient,
                   conn, closeCalls, msg, result, rc, rxMsgId, msgId, headers,
                   fp, fd, cmdResult, openProcs, logged>>

\* result = IOTCLIENT_Stream( ... ): the call returns
StreamReturn ==
    /\ Running /\ pc = "InStream"
    /\ \E r \in {EOK} \cup Errors :
        /\ cmdResult' = r
        /\ cyc' = [cyc EXCEPT !.streamRet = r]
        /\ pc' = AfterStream(r)
    /\ UNCHANGED <<proc, exitStatus, verbose, handlerInstalled, hIoTClient,
                   conn, closeCalls, msg, result, rc, rxMsgId, msgId, headers,
                   fp, fd, openProcs, logged>>

\* pclose( fp ) returns, the subprocess having terminated; its value is not
\* looked at
Pclose ==
    /\ Running /\ pc = "pclose"
    /\ openProcs' = openProcs - 1
    /\ pc' = "ProcessCommandReturn"
    /\ UNCHANGED <<proc, exitStatus, verbose, handlerInstalled, hIoTClient,
                   conn, closeCalls, msg, result, rc, rxMsgId, msgId, headers,
                   fp, fd, cmdResult, cyc, logged>>

\* return result; and ProcessMessage's result = ProcessCommand( ... )
ProcessCommandReturn ==
    /\ Running /\ pc = "ProcessCommandReturn"
    /\ result' = ResultAfterCommand(result, cmdResult)
    /\ pc' = "LogResult"
    /\ UNCHANGED <<proc, exitStatus, verbose, handlerInstalled, hIoTClient,
                   conn, closeCalls, msg, rc, rxMsgId, msgId, headers, fp, fd,
                   cmdResult, openProcs, cyc, logged>>

(***************************************************************************)
(* Specifications                                                          *)
(***************************************************************************)
\* the steps of the main thread, library calls returning included, other
\* than the return of pclose
PromptStep ==
    \/ ProcessOptions
    \/ SetupTerminationHandler
    \/ CreateClient
    \/ CreateReceiver
    \/ CloseClient
    \/ MainReturn
    \/ Receive
    \/ GetProperty
    \/ CheckSize
    \/ LogResult
    \/ ProcessCommand
    \/ Popen
    \/ Fileno
    \/ StreamCall
    \/ StreamReturn
    \/ ProcessCommandReturn

MainStep == PromptStep \/ Pclose

Next == MainStep \/ TerminationHandler

Spec == Init /\ [][Next]_vars

\* The main thread keeps running and IOTCLIENT_Receive, IOTCLIENT_Stream and
\* the other calls return.  pclose waits for the subprocess to terminate:
\* nothing makes a command terminate, so pclose may never return.  A signal
\* may arrive or not.
FairSpec == Spec /\ WF_vars(PromptStep)

(***************************************************************************)
(* ProcessCommand on its own: called with a command and with msgId NULL or *)
(* pointing at a string of any length (held in rxMsgId), the lengths being *)
(* short or around the longest one that fits buf with the headers.         *)
(***************************************************************************)
\* the length of the longest id with which snprintf returns less than BUFSIZ
MaxFittingIdLen == BUFSIZ - 1 - Len(HEADERS \o "\ncorrelationId:" \o "\n")

BuilderIdLens ==
    (1..MaxShortIdLen) \cup
    ((MaxFittingIdLen + 1 - BuilderSlack)..(MaxFittingIdLen + BuilderSlack))

BuilderIds == {Rep(c, n) : c \in IdChars, n \in BuilderIdLens}

BuilderInit ==
    /\ pc = "ProcessCommand"
    /\ proc = "running"
    /\ exitStatus = EOK
    /\ verbose \in BOOLEAN
    /\ handlerInstalled = TRUE
    /\ hIoTClient = "hIoTClient"
    /\ conn = "open"
    /\ closeCalls = <<>>
    /\ msg = [pHeader |-> NULL, kind |-> "absent", id |-> NULL,
              headerLength |-> 0, pBody |-> TRUE, bodyLength |-> 1]
    /\ result = EOK
    /\ rc = "none"
    /\ \/ msgId = NULL /\ rxMsgId = "?"
       \/ msgId = "rxMsgId" /\ rxMsgId \in BuilderIds
    /\ headers = HEADERS
    /\ fp = NULL
    /\ fd = -1
    /\ cmdResult = "EINVAL"
    /\ openProcs = 0
    /\ cyc = NewCycle(EOK)
    /\ logged = "none"

BuilderNext ==
    \/ ProcessCommand
    \/ Popen
    \/ Fileno
    \/ StreamCall
    \/ StreamReturn
    \/ Pclose
    \/ ProcessCommandReturn

BuilderSpec == BuilderInit /\ [][BuilderNext]_vars

(***************************************************************************)
(* Properties                                                              *)
(***************************************************************************)
\* a message was received in this cycle
Received == cyc.rx = EOK

\* ProcessMessage has its final result and is about to log and return it
AtResult == cyc.rx # "none" /\ pc = "LogResult"

\* the size/body check has been made in this cycle
Checked == Received /\ pc \notin {"GetProperty", "CheckSize"}

\* the body was handed to ProcessCommand
Executed == pc = "ProcessCommand" \/ cyc.execs = 1

TotalLength == msg.headerLength + msg.bodyLength

\* the lines of h that are correlationId lines
CorrelationLines(h) ==
    {l \in RangeOf(Lines(h)) : StartsWith(l, "correlationId:")}

\* the received header holds messageId:X with a value that fits rxMsgId
CarriesId == Received /\ msg.kind = "id" /\ Len(msg.id) < MSGID_SIZE

\* C1: a received message with headerLength + bodyLength >= 4096 (4096
\* itself included) spawns no subprocess, is never streamed, and the cycle's
\* result is EMSGSIZE; a message with a body and sum 4095 reaches
\* ProcessCommand.
C1_TooLargeNeverExecuted ==
    /\ (Received /\ TotalLength >= MAX_MESSAGE_LENGTH) =>
          /\ cyc.execs = 0 /\ cyc.popens = 0 /\ cyc.spawns = 0
          /\ cyc.streamed = <<>>
          /\ pc \in {"GetProperty", "CheckSize", "LogResult"}
          /\ (AtResult => result = "EMSGSIZE")
    /\ (Checked /\ msg.pBody /\ TotalLength = MAX_MESSAGE_LENGTH - 1) =>
          Executed

C1_Witness ==
    /\ Received /\ AtResult /\ msg.pBody
    /\ TotalLength = MAX_MESSAGE_LENGTH
    /\ result = "EMSGSIZE"

\* C2: when the received header holds messageId:X with len(X) < 64, every
\* header blob handed to IOTCLIENT_Stream in that cycle has the line
\* correlationId:X.
C2_CorrelationIdCarried ==
    CarriesId =>
        \A i \in 1..Len(cyc.streamed) :
            ("correlationId:" \o msg.id) \in RangeOf(Lines(cyc.streamed[i]))

C2_Witness ==
    /\ CarriesId /\ Len(msg.id) = MSGID_SIZE - 1
    /\ msg.pHeader # "messageId:" \o msg.id
    /\ Len(cyc.streamed) = 1

\* C3: when the message has no header, or a header without a messageId
\* property, the headers handed to IOTCLIENT_Stream are exactly
\* source:exec\nmessagetype:cmdresp.
C3_PlainHeaders ==
    (Received /\ msg.kind \in {"absent", "noId"}) =>
        \A i \in 1..Len(cyc.streamed) : cyc.streamed[i] = HEADERS

C3_Witness ==
    /\ Received /\ msg.kind = "noId"
    /\ rxMsgId \in Ids
    /\ cyc.streamed = <<HEADERS>>

\* C4: a correlationId line in the headers handed to IOTCLIENT_Stream is
\* correlationId:X for the messageId:X of the message of this very cycle;
\* an id extracted in an earlier cycle never shows up.
C4_NoLeakBetweenCycles ==
    \A i \in 1..Len(cyc.streamed) :
        \A l \in CorrelationLines(cyc.streamed[i]) :
            /\ Received /\ msg.kind = "id"
            /\ l = "correlationId:" \o msg.id

\* an earlier cycle extracted an id; this cycle's message has no header and
\* its reply is streamed
C4_Witness ==
    /\ Received /\ msg.kind = "absent"
    /\ rxMsgId \in Ids
    /\ cyc.streamed = <<HEADERS>>
    /\ pc = "InStream"

\* C5: outside the stretch from popen's return to pclose the number of open
\* subprocess streams is zero: so it is when ProcessCommand returns and at
\* every IOTCLIENT_Receive, whether IOTCLIENT_Stream succeeded, failed, or
\* fileno gave no descriptor.
C5_ClosedBeforeReturn ==
    pc \notin {"fileno", "Stream", "InStream", "pclose"} => openProcs = 0

C5_Witness ==
    /\ pc = "ProcessCommandReturn"
    /\ cyc.spawns = 1 /\ cyc.streamed = <<>> /\ cmdResult = "EBADF"
    /\ openProcs = 0

\* the pc values of a dispatch cycle after IOTCLIENT_Receive has returned
CyclePcs == {"GetProperty", "CheckSize", "ProcessCommand", "popen", "fileno",
             "Stream", "InStream", "pclose", "ProcessCommandReturn",
             "LogResult"}

\* a cycle whose Receive failed spawns nothing and streams nothing, and the
\* step after a cycle's result is the next Receive, with the result kept
C6_Safety ==
    /\ [](cyc.rx \in Errors =>
            /\ cyc.execs = 0 /\ cyc.popens = 0 /\ cyc.streamed = <<>>
            /\ pc = "LogResult" /\ result = cyc.rx)
    /\ [][(pc = "LogResult" /\ pc' # pc) =>
              (pc' = "Receive" /\ result' = result)]_vars

\* C6 as claimed: whatever a cycle's outcome, and assuming only that
\* IOTCLIENT_Receive and IOTCLIENT_Stream return, the dispatcher issues
\* IOTCLIENT_Receive again (unless a termination signal ends the process):
\* every Receive leads to the cycle's result and every cycle to the next
\* Receive.
C6_AsClaimed ==
    /\ C6_Safety
    /\ ((pc = "Receive") ~> (pc = "LogResult" \/ proc = "exited"))
    /\ ((pc \in CyclePcs) ~> (pc = "Receive" \/ proc = "exited"))

\* C6, amended: the same, unless the thread stays in pclose for ever,
\* waiting for a subprocess that does not terminate.
C6_AlwaysReceivesAgain ==
    /\ C6_Safety
    /\ ((pc = "Receive") ~>
            (pc = "LogResult" \/ proc = "exited" \/ [](pc = "pclose")))
    /\ ((pc \in CyclePcs) ~>
            (pc = "Receive" \/ proc = "exited" \/ [](pc = "pclose")))

\* back at IOTCLIENT_Receive after a cycle whose Receive failed with EIO,
\* which was logged
C6_Witness ==
    /\ pc = "Receive" /\ proc = "running"
    /\ result = "EIO" /\ logged = "EIO" /\ cyc.rx = "none"

\* C7: at most one subprocess stream is open at any time and at most one is
\* opened per cycle; when IOTCLIENT_Receive is pending none is open, and an
\* IOTCLIENT_Stream call that has not returned has the thread inside it.
C7_StrictlySequential ==
    /\ openProcs <= 1
    /\ cyc.spawns <= 1
    /\ pc \in {"Receive", "LogResult"} => openProcs = 0
    /\ (cyc.streamed # <<>> /\ cyc.streamRet = "none") => pc = "InStream"

\* a command is in flight: its stream is open and being relayed
C7_Witness ==
    /\ pc = "InStream" /\ openProcs = 1 /\ proc = "running"
    /\ cyc.streamRet = "none"

\* C8: once IOTCLIENT_Stream has returned, ProcessCommand's result and then
\* ProcessMessage's result are the value it returned, EOK or any error;
\* pclose does not change it.
C8_StreamResultPropagated ==
    cyc.streamRet # "none" =>
        /\ pc \in {"pclose", "ProcessCommandReturn"} =>
              cmdResult = cyc.streamRet
        /\ AtResult => result = cyc.streamRet

C8_Witness ==
    /\ AtResult
    /\ cyc.streamRet = "ENOTSUP" /\ result = "ENOTSUP"
    /\ openProcs = 0

\* popen returned NULL in this cycle
LaunchFailed == cyc.popens = 1 /\ cyc.spawns = 0

\* C9: when popen fails the result is ENOTSUP, IOTCLIENT_Stream is not
\* called, no subprocess stream is open, and the step that follows the
\* result is the next IOTCLIENT_Receive.
C9_LaunchFailure ==
    /\ [](LaunchFailed =>
            /\ cyc.streamed = <<>> /\ cyc.streamRet = "none"
            /\ openProcs = 0
            /\ pc \in {"ProcessCommandReturn", "LogResult"}
            /\ cmdResult = "ENOTSUP"
            /\ (AtResult => result = "ENOTSUP"))
    /\ [][(LaunchFailed /\ pc = "LogResult" /\ pc' # pc) =>
              pc' = "Receive"]_vars

C9_Witness ==
    /\ LaunchFailed /\ pc = "LogResult" /\ proc = "running"
    /\ result = "ENOTSUP" /\ msg.kind = "id"

\* the header is there and the extractor has failed on its messageId:
\* malformed, or a value too long for rxMsgId
ExtractionFails ==
    /\ Received /\ msg.pHeader # NULL
    /\ rc \notin {EOK, "none"}
    /\ \/ msg.kind = "malformed"
       \/ msg.kind = "id" /\ Len(msg.id) >= MSGID_SIZE

\* C10: when a header is present and the extraction of messageId fails
\* (malformed, or too long for the 64-byte buffer), a message that passes
\* the size check is still handed to ProcessCommand, the headers streamed
\* are the plain ones (no correlationId line, no truncated value), and the
\* cycle's result is ProcessCommand's.
C10_ExtractionFailureNotFatal ==
    ExtractionFails =>
        /\ msgId = NULL
        /\ \A i \in 1..Len(cyc.streamed) :
              /\ CorrelationLines(cyc.streamed[i]) = {}
              /\ cyc.streamed[i] = HEADERS
        /\ (Checked /\ BodyAcceptable(msg)) => Executed
        /\ (AtResult /\ BodyAcceptable(msg)) =>
              (cyc.execs = 1 /\ result = cmdResult)

\* the value did not fit, the extractor left its first 63 bytes in rxMsgId,
\* and the reply was streamed
C10_Witness ==
    /\ ExtractionFails /\ msg.kind = "id"
    /\ rxMsgId = SubSeq(msg.id, 1, MSGID_SIZE - 1)
    /\ cyc.streamed = <<HEADERS>>
    /\ AtResult /\ result = EOK

\* C11: a received message causes at most one call of ProcessCommand, one
\* popen, one spawned subprocess and one IOTCLIENT_Stream call, and a cycle
\* whose Receive failed none; after a popen or an IOTCLIENT_Stream that
\* failed the thread only closes, returns and logs: it does not go back to
\* popen or IOTCLIENT_Stream.
C11_NoRetry ==
    /\ [](/\ cyc.execs <= 1 /\ cyc.popens <= 1 /\ cyc.spawns <= 1
          /\ Len(cyc.streamed) <= 1
          /\ ~Received =>
                (cyc.popens = 0 /\ cyc.spawns = 0 /\ cyc.streamed = <<>>)
          /\ LaunchFailed => pc \in {"ProcessCommandReturn", "LogResult"}
          /\ cyc.streamRet \in Errors =>
                pc \in {"pclose", "ProcessCommandReturn", "LogResult"})
    /\ [][(cyc.streamRet \in Errors \/ LaunchFailed) =>
              /\ cyc'.popens <= cyc.popens
              /\ Len(cyc'.streamed) <= Len(cyc.streamed)]_vars

\* IOTCLIENT_Stream was called once, failed, and the cycle has its result
C11_Witness ==
    /\ AtResult /\ Received
    /\ cyc.popens = 1 /\ cyc.spawns = 1 /\ Len(cyc.streamed) = 1
    /\ cyc.streamRet = "EIO" /\ result = "EIO"

\* a subprocess was spawned in this cycle and fileno returned -1
DescriptorFailed ==
    /\ cyc.spawns = 1 /\ fd = -1
    /\ pc \in {"pclose", "ProcessCommandReturn", "LogResult"}

\* C12: when popen succeeded and fileno returned -1, ProcessCommand's
\* result and then the cycle's result are EBADF, IOTCLIENT_Stream is not
\* called, and the subprocess stream is closed by pclose before
\* ProcessCommand returns.
C12_NoDescriptor ==
    /\ [](DescriptorFailed =>
            /\ cmdResult = "EBADF"
            /\ cyc.streamed = <<>> /\ cyc.streamRet = "none"
            /\ openProcs = (IF pc = "pclose" THEN 1 ELSE 0)
            /\ (AtResult => result = "EBADF"))
    /\ [][(pc = "fileno" /\ pc' # pc /\ fd' = -1) => pc' = "pclose"]_vars

C12_Witness ==
    /\ DescriptorFailed /\ AtResult
    /\ result = "EBADF" /\ openProcs = 0 /\ cyc.streamed = <<>>
    /\ msg.kind = "id"

\* the pc values of main before it has a client handle
StartupPcs == {"ProcessOptions", "SetupTerminationHandler", "Create"}

\* the pc values of the message loop
LoopPcs == CyclePcs \cup {"Receive"}

\* C13 as claimed: the process ends only by the termination handler's exit
\* or by main returning after IOTCLIENT_CreateReceiver failed; a failure of
\* IOTCLIENT_Create does not make main return.
C13_AsClaimed ==
    proc # "running" =>
        \/ proc = "exited"
        \/ proc = "returned" /\ hIoTClient # NULL /\ exitStatus \in Errors

\* C13, amended: the process ends only by the termination handler's exit,
\* or by main returning at startup, after IOTCLIENT_Create returned NULL
\* (status EINVAL, nothing to close) or after IOTCLIENT_CreateReceiver failed
\* (its error as status, the handle closed).  Once in the message loop the
\* main thread stays in it, whatever the cycles' results.
C13_HaltsOnlyAtStartupOrBySignal ==
    /\ [](proc = "returned" =>
            /\ pc = "Return"
            /\ \/ hIoTClient = NULL /\ exitStatus = "EINVAL"
                  /\ closeCalls = <<>>
               \/ hIoTClient # NULL /\ exitStatus \in Errors
                  /\ Len(closeCalls) = 1 /\ closeCalls[1].by = "main")
    /\ [](proc = "exited" =>
            /\ exitStatus = "1"
            /\ closeCalls # <<>>
            /\ closeCalls[Len(closeCalls)].by = "handler")
    /\ []((hIoTClient = NULL /\ pc \notin StartupPcs) => pc = "Return")
    /\ [][(pc' = "Return" /\ pc # "Return") => pc \in {"Create", "Close"}]_vars
    /\ [][(pc' = "Close" /\ pc # "Close") =>
              (pc = "CreateReceiver" /\ exitStatus' \in Errors)]_vars
    /\ [][(pc \in LoopPcs /\ proc' = "running") => pc' \in LoopPcs]_vars

\* main has returned EINVAL because IOTCLIENT_Create gave no handle
C13_Witness ==
    /\ proc = "returned" /\ pc = "Return"
    /\ hIoTClient = NULL /\ exitStatus = "EINVAL"

\* C14 as claimed: a header blob handed to IOTCLIENT_Stream has no newline
\* after its last line, and with a correlation id X it is
\* source:exec\nmessagetype:cmdresp\ncorrelationId:X.
C14_AsClaimed ==
    \A i \in 1..Len(cyc.streamed) :
        LET h == cyc.streamed[i]
        IN  /\ SubSeq(h, Len(h), Len(h)) # "\n"
            /\ CarriesId => h = HEADERS \o "\ncorrelationId:" \o msg.id

\* C14, amended: a header blob handed to IOTCLIENT_Stream has one key:value
\* pair per line.  Without a correlation id it is
\* source:exec\nmessagetype:cmdresp, with no newline after the last line;
\* with a correlation id X it is
\* source:exec\nmessagetype:cmdresp\ncorrelationId:X\n, the correlationId
\* line too being followed by a newline.  It holds exactly those fields.
C14_HeaderLayout ==
    \A i \in 1..Len(cyc.streamed) :
        LET h == cyc.streamed[i]
        IN  IF CarriesId
            THEN /\ h = HEADERS \o "\ncorrelationId:" \o msg.id \o "\n"
                 /\ Lines(h) = <<"source:exec", "messagetype:cmdresp",
                                 "correlationId:" \o msg.id, "">>
            ELSE /\ h = HEADERS
                 /\ Lines(h) = <<"source:exec", "messagetype:cmdresp">>

\* a reply with a correlation id is being streamed
C14_Witness ==
    /\ CarriesId /\ pc = "InStream"
    /\ cyc.streamed = <<"source:exec\nmessagetype:cmdresp\ncorrelationId:"
                         \o msg.id \o "\n">>

\* msgId points at a string with which the composed headers do not fit buf
TooLong ==
    /\ msgId # NULL
    /\ Len(HEADERS) + Len("\ncorrelationId:") + Len(rxMsgId) + Len("\n")
           >= BUFSIZ

\* C15: when the headers composed with the correlation id would have a
\* length >= BUFSIZ, ProcessCommand goes on to popen with headers exactly
\* source:exec\nmessagetype:cmdresp, these are the headers streamed, and the
\* result is the one of popen, fileno and IOTCLIENT_Stream as for any other
\* command; an id that fits is carried in full.  The headers are never a
\* truncated blob.
C15_OverflowFallback ==
    /\ []((TooLong /\ pc # "ProcessCommand") =>
            /\ headers = HEADERS
            /\ cyc.execs = 1
            /\ \A i \in 1..Len(cyc.streamed) : cyc.streamed[i] = HEADERS
            /\ (pc = "LogResult" /\ cyc.streamRet # "none") =>
                  (Len(cyc.streamed) = 1 /\ result = cyc.streamRet))
    /\ []((msgId # NULL /\ ~TooLong /\ pc # "ProcessCommand") =>
            headers = HEADERS \o "\ncorrelationId:" \o rxMsgId \o "\n")
    /\ [][(TooLong /\ pc = "ProcessCommand" /\ pc' # pc) =>
              (pc' = "popen" /\ headers' = HEADERS)]_vars

\* the id was one byte too long to fit, and the command was run and its
\* output streamed with the plain headers
C15_Witness ==
    /\ TooLong /\ Len(rxMsgId) = MaxFittingIdLen + 1
    /\ pc = "LogResult"
    /\ cyc.spawns = 1 /\ cyc.streamed = <<HEADERS>>
    /\ cyc.streamRet = EOK /\ result = EOK

\* the step is a run of TerminationHandler: it adds its IOTCLIENT_Close call
HandlerRan ==
    /\ Len(closeCalls') = Len(closeCalls) + 1
    /\ closeCalls'[Len(closeCalls')].by = "handler"

\* C16: from the return of SetupTerminationHandler on, wherever the main
\* thread is (inside IOTCLIENT_Stream with a subprocess open included), a
\* signal can run the handler; the handler calls IOTCLIENT_Close on
\* state.hIoTClient, leaving no connection open, and exits with status 1;
\* it leaves the subprocess stream as it is (no pclose), and after the exit
\* nothing happens any more: no Receive, no popen, no IOTCLIENT_Stream.
C16_TerminationSignal ==
    /\ []((Running /\ handlerInstalled) => ENABLED TerminationHandler)
    /\ [][HandlerRan =>
              /\ handlerInstalled /\ proc = "running"
              /\ closeCalls'[Len(closeCalls')].handle = hIoTClient
              /\ conn' # "open"
              /\ proc' = "exited" /\ exitStatus' = "1"
              /\ openProcs' = openProcs /\ fp' = fp
              /\ pc' = pc /\ cyc' = cyc]_vars
    /\ [][proc' = "exited" => HandlerRan]_vars
    /\ [][proc # "exited"]_vars

\* the signal came while IOTCLIENT_Stream was relaying a subprocess's output
C16_Witness ==
    /\ proc = "exited" /\ exitStatus = "1"
    /\ pc = "InStream" /\ openProcs = 1 /\ fp = "FILE"
    /\ conn = "closed"
    /\ closeCalls = <<[by |-> "handler", handle |-> "hIoTClient",
                       conn |-> "open"]>>

\* C17 as claimed: popen is never called for a message whose body has
\* length 0.
C17_AsClaimed == cyc.popens >= 1 => msg.bodyLength > 0

\* C17, amended: the command may be empty.  A message whose body is present
\* with length 0 (and headerLength < 4096) passes the check and is handed to
\* ProcessCommand and to popen like any other; popen is called only for a
\* present body within the size limit.
C17_EmptyCommandExecuted ==
    /\ (Checked /\ msg.pBody /\ msg.bodyLength = 0
           /\ msg.headerLength < MAX_MESSAGE_LENGTH) =>
          /\ Executed
          /\ pc \notin {"ProcessCommand", "popen"} => cyc.popens = 1
    /\ cyc.popens >= 1 =>
          (msg.pBody /\ TotalLength < MAX_MESSAGE_LENGTH)

\* the empty command was spawned and its output is being streamed
C17_Witness ==
    /\ Received /\ msg.pBody /\ msg.bodyLength = 0
    /\ cyc.spawns = 1 /\ pc = "InStream"

C19_ClosedOnceAfterCreation ==
    /\ Len(closeCalls) <= 1
    /\ \A i \in 1..Len(closeCalls) :
          closeCalls[i].handle # NULL /\ closeCalls[i].conn = "open"

\* C20: a received message whose body is NULL never reaches ProcessCommand:
\* no popen, no subprocess, no IOTCLIENT_Stream, and the cycle's result is
\* EMSGSIZE, whatever headerLength + bodyLength is.
C20_NullBodyNeverExecuted ==
    (Received /\ ~msg.pBody) =>
        /\ cyc.execs = 0 /\ cyc.popens = 0 /\ cyc.spawns = 0
        /\ cyc.streamed = <<>>
        /\ pc \in {"GetProperty", "CheckSize", "LogResult"}
        /\ AtResult => result = "EMSGSIZE"

\* a message without body and well within the size limit was rejected
C20_Witness ==
    /\ Received /\ ~msg.pBody
    /\ TotalLength < MAX_MESSAGE_LENGTH - 1
    /\ AtResult /\ result = "EMSGSIZE" /\ cyc.popens = 0

====
